---------------------------- MODULE Spec2Model ----------------------------
(***************************************************************************)
(* CSVSchemaAnalyzer (src/csv_analyser.py): profiling of sampled CSV       *)
(* columns, grouping of columns into relationship candidates, and          *)
(* primary/foreign-key suggestion.                                         *)
(*                                                                         *)
(* Python floats are modelled as exact rationals <<num, den>> in lowest    *)
(* terms (den > 0): for the row counts explored here two ratios are equal  *)
(* as floats exactly when they are equal as rationals.  Python dicts are   *)
(* modelled as sequences of <<key, value>> pairs, which keeps their        *)
(* insertion order; pandas' read_csv is the environment, which hands the   *)
(* analyzer a header, a row count and typed, possibly missing, cells.      *)
(***************************************************************************)
EXTENDS Integers, Sequences, FiniteSets, TLC

VARIABLES directory, file_metadata, column_stats, relationships,
          suggested_primary_keys, suggested_foreign_keys, pc, idx, runs

vars == <<directory, file_metadata, column_stats, relationships,
          suggested_primary_keys, suggested_foreign_keys, pc, idx, runs>>

----------------------------------------------------------------------------
(* Bounds of the exploration.                                              *)

\* calls of analyze_all_files on one analyzer instance
MaxRuns == 2
\* entries of the directory listing
MaxFiles == 2
\* rows of a fingerprint drawn for the confidence specification
MaxRows == 2
\* distinct sample values drawn for the confidence specification
MaxSample == 2

----------------------------------------------------------------------------
(* Exact rational arithmetic standing for Python's float arithmetic.       *)

RECURSIVE GCD(_, _)
GCD(a, b) == IF b = 0 THEN a ELSE GCD(b, a % b)

Abs(n) == IF n < 0 THEN -n ELSE n

RNorm(r) ==
    LET g == GCD(Abs(r[1]), r[2])
    IN  <<r[1] \div g, r[2] \div g>>

Ratio(n, d) == RNorm(<<n, d>>)

RZero == <<0, 1>>
ROne == <<1, 1>>

RLess(a, b) == a[1] * b[2] < b[1] * a[2]
RLeq(a, b) == a[1] * b[2] <= b[1] * a[2]
RAdd(a, b) == RNorm(<<a[1] * b[2] + b[1] * a[2], a[2] * b[2]>>)
RSub(a, b) == RNorm(<<a[1] * b[2] - b[1] * a[2], a[2] * b[2]>>)
RMul(a, b) == RNorm(<<a[1] * b[1], a[2] * b[2]>>)
RMin(a, b) == IF RLeq(a, b) THEN a ELSE b

----------------------------------------------------------------------------
(* Insertion-ordered dictionaries.                                         *)

RECURSIVE DictHas(_, _)
DictHas(d, k) ==
    IF d = <<>> THEN FALSE
    ELSE IF Head(d)[1] = k THEN TRUE ELSE DictHas(Tail(d), k)

RECURSIVE DictGet(_, _)
DictGet(d, k) == IF Head(d)[1] = k THEN Head(d)[2] ELSE DictGet(Tail(d), k)

\* d[k] = v: an existing key keeps its place, a new key goes last
RECURSIVE DictPut(_, _, _)
DictPut(d, k, v) ==
    IF d = <<>> THEN << <<k, v>> >>
    ELSE IF Head(d)[1] = k THEN << <<k, v>> >> \o Tail(d)
    ELSE <<Head(d)>> \o DictPut(Tail(d), k, v)

DictKeys(d) == {d[i][1] : i \in 1..Len(d)}

----------------------------------------------------------------------------
(* The sampled data: what pd.read_csv(filepath, nrows=1000) returns.       *)

NaN == [null |-> TRUE]
Cell(v) == [null |-> FALSE, v |-> v]

\* a fixed-width string of 20 characters, and another one
LongA == "aaaaaaaaaaaaaaaaaaaa"
LongB == "bbbbbbbbbbbbbbbbbbbb"

\* The typed columns a sampled two-row file can hold.
SampledColumns ==
    { [dtype |-> "int64",   values |-> <<Cell(1), Cell(2)>>],
      [dtype |-> "int64",   values |-> <<Cell(3), Cell(4)>>],
      [dtype |-> "int64",   values |-> <<Cell(1), Cell(1)>>],
      [dtype |-> "float64", values |-> <<Cell(1), NaN>>],
      [dtype |-> "object",  values |-> <<Cell("ab"), Cell("cd")>>],
      [dtype |-> "object",  values |-> <<Cell("a"), Cell("bcd")>>],
      [dtype |-> "object",  values |-> <<Cell(LongA), Cell(LongB)>>],
      [dtype |-> "object",  values |-> <<NaN, NaN>>] }

\* The header of a sampled file is a prefix of these column names.
Header == <<"id", "ref">>

\* The data frames read_csv can return for a readable file of two rows.
DataFrames ==
    UNION { [1..k -> SampledColumns] : k \in 1..Len(Header) }

\* A header-only file: read_csv returns a frame with no rows.
EmptyFrame == << [dtype |-> "object", values |-> <<>>] >>

\* What a directory entry can be: its content and whether it can be read.
FileContents ==
    { [readable |-> TRUE, frame |-> f] : f \in DataFrames \cup {EmptyFrame} }
    \cup { [readable |-> FALSE, frame |-> EmptyFrame] }

\* The names os.listdir can return.
FileNames == {"a.csv", "b.csv", "notes.txt"}

\* filename.endswith('.csv')
EndsWithCsv(filename) ==
    /\ Len(filename) >= 4
    /\ SubSeq(filename, Len(filename) - 3, Len(filename)) = ".csv"

\* Only a .csv entry is ever opened: the content of any other entry is fixed.
ContentsOf(filename) ==
    IF EndsWithCsv(filename) THEN FileContents
    ELSE { [readable |-> TRUE, frame |-> EmptyFrame] }

\* The listings of a directory: distinct names, in the order os.listdir
\* returns them, each with its content.
Listings ==
    UNION { { l \in [1..n -> [name : FileNames, content : FileContents]] :
                /\ \A i \in 1..n : l[i].content \in ContentsOf(l[i].name)
                /\ \A i, j \in 1..n : i # j => l[i].name # l[j].name }
            : n \in 0..MaxFiles }

LenDf(frame) == Len(frame[1].values)


----------------------------------------------------------------------------
(* analyze_column.                                                         *)

\* first [:5] of the distinct non-null values are kept as samples
SampleCap == 5

\* str(x) of a cell value of the given dtype
Str(dtype, v) ==
    IF dtype = "object" THEN v
    ELSE IF dtype = "float64" THEN ToString(v) \o ".0"
    ELSE ToString(v)

\* series.dropna(), as the sequence of the values present
RECURSIVE DropNa(_)
DropNa(values) ==
    IF values = <<>> THEN <<>>
    ELSE IF Head(values).null THEN DropNa(Tail(values))
    ELSE <<Head(values).v>> \o DropNa(Tail(values))

Contains(seq, x) == \E i \in 1..Len(seq) : seq[i] = x

\* .unique(): the distinct values in order of first appearance
RECURSIVE UniqueFrom(_, _)
UniqueFrom(seen, rest) ==
    IF rest = <<>> THEN seen
    ELSE IF Contains(seen, Head(rest)) THEN UniqueFrom(seen, Tail(rest))
    ELSE UniqueFrom(Append(seen, Head(rest)), Tail(rest))

Unique(seq) == UniqueFrom(<<>>, seq)

\* series.isnull().sum()
NullCount(values) == Cardinality({i \in 1..Len(values) : values[i].null})

Take(seq, n) == SubSeq(seq, 1, IF Len(seq) < n THEN Len(seq) ELSE n)

\* series.dropna().astype(str).apply(len)
Lengths(series) ==
    LET present == DropNa(series.values)
    IN  [i \in 1..Len(present) |-> Len(Str(series.dtype, present[i]))]

RECURSIVE SeqSum(_)
SeqSum(seq) == IF seq = <<>> THEN 0 ELSE Head(seq) + SeqSum(Tail(seq))

SeqMin(seq) == CHOOSE m \in {seq[i] : i \in 1..Len(seq)} :
                    \A i \in 1..Len(seq) : m <= seq[i]

SeqMax(seq) == CHOOSE m \in {seq[i] : i \in 1..Len(seq)} :
                    \A i \in 1..Len(seq) : m >= seq[i]

\* analyze_column raises: int(lengths.min()) of an object column with no
\* value present is int(nan), a ValueError; unique_count / len(series)
\* of a series with no rows is a ZeroDivisionError.
ColumnRaises(series) ==
    \/ series.dtype = "object" /\ DropNa(series.values) = <<>>
    \/ Len(series.values) = 0

\* The statistics analyze_column stores for a series it can profile.
ColumnStats(series) ==
    LET present == DropNa(series.values)
        uniq == Unique(present)
        base == [ dtype |-> series.dtype,
                  unique_count |-> Len(uniq),
                  null_count |-> NullCount(series.values),
                  unique_ratio |-> Ratio(Len(uniq), Len(series.values)),
                  sample_values |-> Take(uniq, SampleCap) ]
        lengths == Lengths(series)
    IN  IF series.dtype = "object"
        THEN [ dtype |-> base.dtype,
               unique_count |-> base.unique_count,
               null_count |-> base.null_count,
               unique_ratio |-> base.unique_ratio,
               sample_values |-> base.sample_values,
               min_len |-> SeqMin(lengths),
               max_len |-> SeqMax(lengths),
               avg_len |-> Ratio(SeqSum(lengths), Len(lengths)) ]
        ELSE base

\* self.column_stats[filepath][column] = {...} on a defaultdict(dict)
StoreColumn(cs, filepath, column, stats) ==
    LET inner == IF DictHas(cs, filepath) THEN DictGet(cs, filepath) ELSE <<>>
    IN  DictPut(cs, filepath, DictPut(inner, column, stats))

----------------------------------------------------------------------------
(* analyze_file.                                                           *)

\* self._file_hash(filepath): the digest stands for the bytes it is taken of
FileHash(content) == content.frame

\* df.head(1).to_dict(orient='records')[0]
SampleData(frame) == [i \in 1..Len(frame) |-> <<Header[i], frame[i].values[1]>>]

\* pd.read_csv fails on an unreadable file; [0] of the records of a frame
\* without rows is an IndexError.  Both happen before anything is stored.
FileRaisesEarly(content) == ~content.readable \/ LenDf(content.frame) = 0

FileMetadata(file) ==
    [ filename |-> file.name,
      columns |-> [i \in 1..Len(file.content.frame) |-> Header[i]],
      row_count |-> LenDf(file.content.frame),
      sample_data |-> SampleData(file.content.frame),
      file_hash |-> FileHash(file.content) ]

\* for column in df.columns: self.analyze_column(...), left at the first
\* column that raises (the except clause of analyze_file swallows it).
RECURSIVE AnalyzeColumns(_, _, _, _)
AnalyzeColumns(cs, filepath, frame, i) ==
    IF i > Len(frame) THEN cs
    ELSE IF ColumnRaises(frame[i]) THEN cs
    ELSE AnalyzeColumns(StoreColumn(cs, filepath, Header[i], ColumnStats(frame[i])),
                        filepath, frame, i + 1)

\* os.path.join(self.directory, filename): the directory is one and the same
FilePath(filename) == filename

AnalyzeFileMetadata(fm, file) ==
    IF FileRaisesEarly(file.content) THEN fm
    ELSE DictPut(fm, FilePath(file.name), FileMetadata(file))

AnalyzeFileStats(cs, file) ==
    IF FileRaisesEarly(file.content) THEN cs
    ELSE AnalyzeColumns(cs, FilePath(file.name), file.content.frame, 1)

----------------------------------------------------------------------------
(* _values_compatible and _calculate_confidence.                           *)

\* set(str(x) for x in stats['sample_values'])
SampleSet(stats) ==
    {Str(stats.dtype, stats.sample_values[i]) : i \in 1..Len(stats.sample_values)}

ValuesCompatible(pk_stats, fk_stats) ==
    IF pk_stats.dtype # fk_stats.dtype THEN FALSE
    ELSE IF RLess(pk_stats.unique_ratio, fk_stats.unique_ratio) THEN FALSE
    ELSE Cardinality(SampleSet(pk_stats) \cap SampleSet(fk_stats)) > 0

\* the weight of the sample boost, 0.3
SampleBoostWeight == <<3, 10>>

\* the confidence without its cap at 1.0
CalculateConfidenceUnclamped(pk_stats, fk_stats) ==
    LET base_score == RMin(pk_stats.unique_ratio,
                           RSub(ROne, fk_stats.unique_ratio))
        pk_samples == SampleSet(pk_stats)
        fk_samples == SampleSet(fk_stats)
        overlap == Cardinality(pk_samples \cap fk_samples)
        sample_boost == IF Cardinality(pk_samples) > 0
                        THEN Ratio(overlap, Cardinality(pk_samples))
                        ELSE RZero
    IN  RAdd(base_score, RMul(sample_boost, SampleBoostWeight))

CalculateConfidence(pk_stats, fk_stats) ==
    LET base_score == RMin(pk_stats.unique_ratio,
                           RSub(ROne, fk_stats.unique_ratio))
        pk_samples == SampleSet(pk_stats)
        fk_samples == SampleSet(fk_stats)
        overlap == Cardinality(pk_samples \cap fk_samples)
        sample_boost == IF Cardinality(pk_samples) > 0
                        THEN Ratio(overlap, Cardinality(pk_samples))
                        ELSE RZero
    IN  RMin(ROne, RAdd(base_score, RMul(sample_boost, SampleBoostWeight)))

----------------------------------------------------------------------------
(* find_relationships.                                                     *)

\* self.column_stats[x[0]][x[1]]
StatsOf(cs, col) == DictGet(DictGet(cs, col[1]), col[2])

\* every (filepath, col_name), in the order the two nested loops visit them
RECURSIVE ColumnsOfFile(_, _)
ColumnsOfFile(filepath, columns) ==
    IF columns = <<>> THEN <<>>
    ELSE << <<filepath, Head(columns)[1]>> >> \o ColumnsOfFile(filepath, Tail(columns))

RECURSIVE AllColumns(_)
AllColumns(cs) ==
    IF cs = <<>> THEN <<>>
    ELSE ColumnsOfFile(Head(cs)[1], Head(cs)[2]) \o AllColumns(Tail(cs))

GroupKey(stats) == <<stats.dtype, stats.unique_ratio>>

\* column_groups[key].append((filepath, col_name)) on a defaultdict(list)
RECURSIVE ColumnGroups(_, _, _)
ColumnGroups(cs, cols, groups) ==
    IF cols = <<>> THEN groups
    ELSE LET key == GroupKey(StatsOf(cs, Head(cols)))
             old == IF DictHas(groups, key) THEN DictGet(groups, key) ELSE <<>>
         IN  ColumnGroups(cs, Tail(cols), DictPut(groups, key, Append(old, Head(cols))))

\* sorted(columns, key=unique_ratio, reverse=True): stable, so columns of
\* equal ratio keep their order
RECURSIVE InsertSorted(_, _, _)
InsertSorted(cs, sorted, col) ==
    IF sorted = <<>> THEN <<col>>
    ELSE IF RLess(StatsOf(cs, Head(sorted)).unique_ratio, StatsOf(cs, col).unique_ratio)
         THEN <<col>> \o sorted
         ELSE <<Head(sorted)>> \o InsertSorted(cs, Tail(sorted), col)

RECURSIVE SortedCols(_, _, _)
SortedCols(cs, columns, sorted) ==
    IF columns = <<>> THEN sorted
    ELSE SortedCols(cs, Tail(columns), InsertSorted(cs, sorted, Head(columns)))

\* the gate without its test of the dtype
GroupEligibleAnyDtype(group, columns) == Len(columns) > 1

\* len(columns) > 1 and group[0] != 'object'
GroupEligible(group, columns) == Len(columns) > 1 /\ group[1] # "object"

Relationship(cs, pk_candidate, other) ==
    [ pk_file |-> pk_candidate[1],
      pk_column |-> pk_candidate[2],
      fk_file |-> other[1],
      fk_column |-> other[2],
      confidence |-> CalculateConfidence(StatsOf(cs, pk_candidate), StatsOf(cs, other)) ]

\* for other in sorted_cols[1:]: append when compatible
RECURSIVE LinkOthers(_, _, _, _)
LinkOthers(cs, pk_candidate, others, rels) ==
    IF others = <<>> THEN rels
    ELSE LinkOthers(cs, pk_candidate, Tail(others),
            IF ValuesCompatible(StatsOf(cs, pk_candidate), StatsOf(cs, Head(others)))
            THEN Append(rels, Relationship(cs, pk_candidate, Head(others)))
            ELSE rels)

RECURSIVE LinkGroups(_, _, _)
LinkGroups(cs, groups, rels) ==
    IF groups = <<>> THEN rels
    ELSE LET group == Head(groups)[1]
             columns == Head(groups)[2]
             sorted_cols == SortedCols(cs, columns, <<>>)
         IN  LinkGroups(cs, Tail(groups),
                IF GroupEligible(group, columns)
                THEN LinkOthers(cs, Head(sorted_cols), Tail(sorted_cols), rels)
                ELSE rels)

\* self.relationships after find_relationships, given it before
FindRelationshipsOf(cs, rels) ==
    LinkGroups(cs, ColumnGroups(cs, AllColumns(cs), <<>>), rels)

----------------------------------------------------------------------------
(* suggest_keys.                                                           *)

\* the penalty of a string column that does not look like an id, 0.5
StringPenalty == <<1, 2>>
\* the threshold of a primary key, 0.8
PkThreshold == <<8, 10>>
\* avg_len < 20
IdLenLimit == 20

\* the id test without its limit on the mean length
LooksLikeIdAnyLength(stats) == stats.min_len = stats.max_len

LooksLikeId(stats) ==
    stats.min_len = stats.max_len /\ RLess(stats.avg_len, <<IdLenLimit, 1>>)

PkScore(stats, row_count) ==
    LET score == RMul(stats.unique_ratio,
                      RSub(ROne, Ratio(stats.null_count, row_count)))
    IN  IF stats.dtype = "object" /\ ~LooksLikeId(stats)
        THEN RMul(score, StringPenalty)
        ELSE score

NoPk == [best_pk |-> "", best_score |-> RZero]

\* if score > best_score: best_score = score; best_pk = col_name
RECURSIVE BestPk(_, _, _)
BestPk(columns, row_count, best) ==
    IF columns = <<>> THEN best
    ELSE LET score == PkScore(Head(columns)[2], row_count)
         IN  BestPk(Tail(columns), row_count,
                IF RLess(best.best_score, score)
                THEN [best_pk |-> Head(columns)[1], best_score |-> score]
                ELSE best)

\* if best_pk and best_score > 0.8
PkAccepted(best) == best.best_pk # "" /\ RLess(PkThreshold, best.best_score)

RECURSIVE SuggestPrimaryKeys(_, _, _)
SuggestPrimaryKeys(cs, fm, spk) ==
    IF cs = <<>> THEN spk
    ELSE LET filepath == Head(cs)[1]
             best == BestPk(Head(cs)[2], DictGet(fm, filepath).row_count, NoPk)
         IN  SuggestPrimaryKeys(Tail(cs), fm,
                IF PkAccepted(best) THEN DictPut(spk, filepath, best.best_pk) ELSE spk)

\* the test of the file alone, not of the column
PkFileAccepted(spk, rel) == DictHas(spk, rel.pk_file)

\* rel['pk_file'] in spk and rel['pk_column'] == spk[rel['pk_file']]
PkSideAccepted(spk, rel) ==
    DictHas(spk, rel.pk_file) /\ rel.pk_column = DictGet(spk, rel.pk_file)

ForeignKey(rel) ==
    [ source_file |-> rel.fk_file,
      source_column |-> rel.fk_column,
      target_file |-> rel.pk_file,
      target_column |-> rel.pk_column,
      confidence |-> rel.confidence ]

RECURSIVE SuggestForeignKeys(_, _, _)
SuggestForeignKeys(rels, spk, sfk) ==
    IF rels = <<>> THEN sfk
    ELSE SuggestForeignKeys(Tail(rels), spk,
            IF PkSideAccepted(spk, Head(rels))
            THEN Append(sfk, ForeignKey(Head(rels)))
            ELSE sfk)

----------------------------------------------------------------------------
(* The analyzer: __init__, and analyze_all_files step by step.             *)

TypeOK ==
    /\ pc \in {"idle", "files", "keys", "pairs"}
    /\ runs \in 0..MaxRuns
    /\ idx \in 1..(Len(directory) + 1)

Init ==
    /\ directory \in Listings
    /\ file_metadata = <<>>
    /\ column_stats = <<>>
    /\ relationships = <<>>
    /\ suggested_primary_keys = <<>>
    /\ suggested_foreign_keys = <<>>
    /\ pc = "idle"
    /\ idx = 1
    /\ runs = 0

\* analyze_all_files is called: os.listdir(self.directory)
AnalyzeAllFiles ==
    /\ pc = "idle"
    /\ runs < MaxRuns
    /\ pc' = "files"
    /\ idx' = 1
    /\ runs' = runs + 1
    /\ UNCHANGED <<directory, file_metadata, column_stats, relationships,
                   suggested_primary_keys, suggested_foreign_keys>>

\* a listed name that does not end in .csv is passed over
SkipFile ==
    /\ pc = "files"
    /\ idx <= Len(directory)
    /\ ~EndsWithCsv(directory[idx].name)
    /\ idx' = idx + 1
    /\ UNCHANGED <<directory, file_metadata, column_stats, relationships,
                   suggested_primary_keys, suggested_foreign_keys, pc, runs>>

\* self.analyze_file(filepath), exception handler included
AnalyzeFile ==
    /\ pc = "files"
    /\ idx <= Len(directory)
    /\ EndsWithCsv(directory[idx].name)
    /\ file_metadata' = AnalyzeFileMetadata(file_metadata, directory[idx])
    /\ column_stats' = AnalyzeFileStats(column_stats, directory[idx])
    /\ idx' = idx + 1
    /\ UNCHANGED <<directory, relationships, suggested_primary_keys,
                   suggested_foreign_keys, pc, runs>>

\* self.find_relationships()
FindRelationships ==
    /\ pc = "files"
    /\ idx > Len(directory)
    /\ relationships' = FindRelationshipsOf(column_stats, relationships)
    /\ pc' = "keys"
    /\ UNCHANGED <<directory, file_metadata, column_stats,
                   suggested_primary_keys, suggested_foreign_keys, idx, runs>>

\* self.suggest_keys()
SuggestKeys ==
    /\ pc = "keys"
    /\ suggested_primary_keys' =
            SuggestPrimaryKeys(column_stats, file_metadata, suggested_primary_keys)
    /\ suggested_foreign_keys' =
            SuggestForeignKeys(relationships, suggested_primary_keys',
                               suggested_foreign_keys)
    /\ pc' = "idle"
    /\ UNCHANGED <<directory, file_metadata, column_stats, relationships, idx, runs>>

Next ==
    \/ AnalyzeAllFiles
    \/ SkipFile
    \/ AnalyzeFile
    \/ FindRelationships
    \/ SuggestKeys

Spec == Init /\ [][Next]_vars

----------------------------------------------------------------------------
(* analyze_all_files as one function of the analyzer and the listing.      *)

NewAnalyzer ==
    [ file_metadata |-> <<>>, column_stats |-> <<>>, relationships |-> <<>>,
      suggested_primary_keys |-> <<>>, suggested_foreign_keys |-> <<>> ]

Analyzer ==
    [ file_metadata |-> file_metadata, column_stats |-> column_stats,
      relationships |-> relationships,
      suggested_primary_keys |-> suggested_primary_keys,
      suggested_foreign_keys |-> suggested_foreign_keys ]

\* the loop over os.listdir(self.directory)
RECURSIVE AnalyzeListing(_, _)
AnalyzeListing(st, listing) ==
    IF listing = <<>> THEN st
    ELSE AnalyzeListing(
            IF EndsWithCsv(Head(listing).name)
            THEN [st EXCEPT !.file_metadata = AnalyzeFileMetadata(@, Head(listing)),
                            !.column_stats = AnalyzeFileStats(@, Head(listing))]
            ELSE st,
            Tail(listing))

RunAnalysis(st, listing) ==
    LET profiled == AnalyzeListing(st, listing)
        rels == FindRelationshipsOf(profiled.column_stats, profiled.relationships)
        spk == SuggestPrimaryKeys(profiled.column_stats, profiled.file_metadata,
                                  profiled.suggested_primary_keys)
    IN  [ profiled EXCEPT
            !.relationships = rels,
            !.suggested_primary_keys = spk,
            !.suggested_foreign_keys =
                SuggestForeignKeys(rels, spk, profiled.suggested_foreign_keys) ]

----------------------------------------------------------------------------
(* _calculate_confidence and suggest_keys over arbitrary fingerprints.     *)

\* increasing sequences over 1..MaxSample: one per set of sample values
SampleLists ==
    { s \in UNION { [1..n -> 1..MaxSample] : n \in 0..MaxSample } :
        \A i \in 1..(Len(s) - 1) : s[i] < s[i + 1] }

\* A fingerprint of a numeric column of a file of `rows` rows, its ratio
\* anywhere in [0,1] and its samples any set.
Fingerprints(rows) ==
    UNION { { [ dtype |-> "int64", unique_count |-> u, null_count |-> n,
                unique_ratio |-> Ratio(u, rows), sample_values |-> s ]
              : s \in SampleLists }
            : <<u, n>> \in { p \in (0..rows) \X (0..rows) : p[1] + p[2] <= rows } }

ConfInit ==
    /\ directory = <<>>
    /\ \E ra, rb \in 1..MaxRows :
         \E fa \in Fingerprints(ra), fb \in Fingerprints(rb) :
            /\ column_stats = << <<"a.csv", << <<"id", fa>> >> >>,
                                 <<"b.csv", << <<"id", fb>> >> >> >>
            /\ file_metadata = << <<"a.csv", [filename |-> "a.csv", row_count |-> ra]>>,
                                  <<"b.csv", [filename |-> "b.csv", row_count |-> rb]>> >>
    /\ relationships = <<>>
    /\ suggested_primary_keys = <<>>
    /\ suggested_foreign_keys = <<>>
    /\ pc = "pairs"
    /\ idx = 1
    /\ runs = 0

\* lines 102-108 applied to one pair of profiled columns of different files
ScorePair ==
    /\ pc = "pairs"
    /\ \E pk, fk \in {c \in DictKeys(column_stats) \X {"id"} : TRUE} :
          /\ pk # fk
          /\ relationships' = Append(relationships, Relationship(column_stats, pk, fk))
    /\ pc' = "keys"
    /\ UNCHANGED <<directory, file_metadata, column_stats,
                   suggested_primary_keys, suggested_foreign_keys, idx, runs>>

ConfNext ==
    \/ ScorePair
    \/ SuggestKeys

ConfSpec == ConfInit /\ [][ConfNext]_vars

----------------------------------------------------------------------------
(* Properties.                                                             *)

\* analyze_all_files has returned at least once
Done == pc = "idle" /\ runs >= 1

Rels == {relationships[i] : i \in 1..Len(relationships)}
Fks == {suggested_foreign_keys[i] : i \in 1..Len(suggested_foreign_keys)}
Profiled == {AllColumns(column_stats)[i] : i \in 1..Len(AllColumns(column_stats))}
DtypeAt(f, c) == StatsOf(column_stats, <<f, c>>).dtype
SamplesAt(f, c) == SampleSet(StatsOf(column_stats, <<f, c>>))
HasPk(f) == DictHas(suggested_primary_keys, f)
IsPk(f, c) == HasPk(f) /\ DictGet(suggested_primary_keys, f) = c
InUnitInterval(r) == RLeq(RZero, r) /\ RLeq(r, ROne)

\* C1: no entry of relationships links two columns of the same file, and
\* none links two columns whose dtype differs.
C1_NeverSameFileNorMixedDtype ==
    \A rel \in Rels :
        /\ rel.pk_file # rel.fk_file
        /\ DtypeAt(rel.pk_file, rel.pk_column) = DtypeAt(rel.fk_file, rel.fk_column)

\* C2: the confidence of every relationship candidate, and of every
\* foreign-key suggestion derived from one, lies in [0,1], whatever the two
\* fingerprints' unique ratios in [0,1] and sample sets are.
C2_ConfidenceInUnitInterval ==
    /\ \A rel \in Rels : InUnitInterval(rel.confidence)
    /\ \A fk \in Fks : InUnitInterval(fk.confidence)

\* C2 witness: a candidate whose uncapped score exceeds 1 (a fully unique
\* primary side, a side of ratio 0, shared samples) and a foreign key
\* derived from it.
C2_Witness ==
    /\ \E rel \in Rels :
          /\ rel.confidence = ROne
          /\ StatsOf(column_stats, <<rel.pk_file, rel.pk_column>>).unique_ratio = ROne
          /\ StatsOf(column_stats, <<rel.fk_file, rel.fk_column>>).unique_ratio = RZero
          /\ SamplesAt(rel.pk_file, rel.pk_column)
                \cap SamplesAt(rel.fk_file, rel.fk_column) # {}
    /\ \E fk \in Fks : fk.confidence = ROne

\* C3: after a run, relationships is sorted descending by confidence: each
\* entry's confidence is at least that of the entry after it.
C3_SortedByConfidence ==
    (pc = "idle" /\ runs = 1) =>
        \A i \in 1..(Len(relationships) - 1) :
            RLeq(relationships[i + 1].confidence, relationships[i].confidence)

\* two profiled text columns of different files with the same name
TextTwins ==
    { p \in Profiled \X Profiled :
        /\ p[1][1] # p[2][1]
        /\ p[1][2] = p[2][2]
        /\ DtypeAt(p[1][1], p[1][2]) = "object"
        /\ DtypeAt(p[2][1], p[2][2]) = "object" }

Links(rel, a, b) ==
    \/ <<rel.pk_file, rel.pk_column>> = a /\ <<rel.fk_file, rel.fk_column>> = b
    \/ <<rel.pk_file, rel.pk_column>> = b /\ <<rel.fk_file, rel.fk_column>> = a

C5Score(stats, row_count) ==
    LET score == RMul(stats.unique_ratio,
                      RSub(ROne, Ratio(stats.null_count, row_count)))
    IN  IF stats.dtype = "object"
           /\ ~(stats.min_len = stats.max_len /\ RLess(stats.avg_len, <<20, 1>>))
        THEN RMul(score, <<1, 2>>)
        ELSE score

C5Scores(f) ==
    LET columns == DictGet(column_stats, f)
    IN  { C5Score(columns[j][2], DictGet(file_metadata, f).row_count)
            : j \in 1..Len(columns) }

C5MaxScore(f) == CHOOSE m \in C5Scores(f) : \A x \in C5Scores(f) : RLeq(x, m)

\* C5: after suggest_keys each file has at most one suggested primary key;
\* it has one exactly when the greatest score of its columns exceeds 0.8,
\* and the suggested column is then one of that score.
C5_PrimaryKeyIffBestScoreAboveThreshold ==
    Done =>
        /\ \A i, j \in 1..Len(suggested_primary_keys) :
              suggested_primary_keys[i][1] = suggested_primary_keys[j][1] => i = j
        /\ \A f \in DictKeys(suggested_primary_keys) : f \in DictKeys(column_stats)
        /\ \A f \in DictKeys(column_stats) :
              /\ HasPk(f) <=> RLess(<<8, 10>>, C5MaxScore(f))
              /\ HasPk(f) =>
                    LET c == DictGet(suggested_primary_keys, f)
                    IN  /\ DictHas(DictGet(column_stats, f), c)
                        /\ C5Score(StatsOf(column_stats, <<f, c>>),
                                   DictGet(file_metadata, f).row_count) = C5MaxScore(f)

\* C5 witness: after a run, one file's key is a fixed-width text column, a
\* second file of long fixed-width text has none, and rerunning kept both.
C5_Witness ==
    /\ pc = "idle" /\ runs = 2
    /\ \E f, g \in DictKeys(column_stats) :
          /\ HasPk(f)
          /\ DtypeAt(f, DictGet(suggested_primary_keys, f)) = "object"
          /\ ~HasPk(g)
          /\ \E j \in 1..Len(DictGet(column_stats, g)) :
                LET stats == DictGet(column_stats, g)[j][2]
                IN  /\ stats.dtype = "object"
                    /\ stats.min_len = stats.max_len
                    /\ stats.unique_ratio = ROne

\* C6: every foreign-key suggestion targets the accepted primary key of its
\* target file and carries the confidence of a candidate it derives from;
\* a file without an accepted primary key is never a target.
C6_ForeignKeyTargetsAcceptedPrimaryKey ==
    \A fk \in Fks :
        /\ IsPk(fk.target_file, fk.target_column)
        /\ \E rel \in Rels :
              /\ rel.pk_file = fk.target_file
              /\ rel.pk_column = fk.target_column
              /\ rel.fk_file = fk.source_file
              /\ rel.fk_column = fk.source_column
              /\ rel.confidence = fk.confidence

\* C6 witness: a foreign key has been suggested while some candidate's
\* pk side sits in a file whose accepted key is another column.
C6_Witness ==
    /\ Done
    /\ suggested_foreign_keys # <<>>
    /\ \E rel \in Rels : HasPk(rel.pk_file) /\ ~IsPk(rel.pk_file, rel.pk_column)

HasFk(src, tgt) ==
    \E fk \in Fks :
        /\ <<fk.source_file, fk.source_column>> = src
        /\ <<fk.target_file, fk.target_column>> = tgt

\* C7: for each candidate one of whose sides is its file's accepted primary
\* key, a foreign key from the other side to that key is suggested,
\* whichever of the two positions the key side holds.
C7_EitherSideAnchorsForeignKey ==
    Done =>
        \A rel \in Rels :
            /\ IsPk(rel.pk_file, rel.pk_column) =>
                  HasFk(<<rel.fk_file, rel.fk_column>>, <<rel.pk_file, rel.pk_column>>)
            /\ IsPk(rel.fk_file, rel.fk_column) =>
                  HasFk(<<rel.pk_file, rel.pk_column>>, <<rel.fk_file, rel.fk_column>>)

\* C8: a second analyze_all_files on the same instance over the same files
\* leaves the report what the first run made it.
C8_SecondRunAddsNothing ==
    (pc = "idle" /\ runs = 2) => Analyzer = RunAnalysis(NewAnalyzer, directory)

\* processing of the file raises somewhere in analyze_file
FileFails(file) ==
    \/ ~file.content.readable
    \/ Len(file.content.frame[1].values) = 0
    \/ \E i \in 1..Len(file.content.frame) :
          /\ file.content.frame[i].dtype = "object"
          /\ \A k \in 1..Len(file.content.frame[i].values) :
                file.content.frame[i].values[k].null

Reverse(seq) == [i \in 1..Len(seq) |-> seq[Len(seq) + 1 - i]]

\* what C10 compares: the candidates as unordered pairs with their
\* confidence, and the suggested keys
Outcome(st) ==
    [ candidates |->
        { << { <<st.relationships[i].pk_file, st.relationships[i].pk_column>>,
               <<st.relationships[i].fk_file, st.relationships[i].fk_column>> },
             st.relationships[i].confidence >> : i \in 1..Len(st.relationships) },
      primary |-> { st.suggested_primary_keys[i]
                      : i \in 1..Len(st.suggested_primary_keys) },
      foreign |-> { st.suggested_foreign_keys[i]
                      : i \in 1..Len(st.suggested_foreign_keys) } ]

\* C10: the outcome of a run is the one the same files give when listed in
\* the opposite order.
C10_ListingOrderIrrelevant ==
    (pc = "idle" /\ runs = 1) =>
        Outcome(Analyzer) = Outcome(RunAnalysis(NewAnalyzer, Reverse(directory)))

\* The step-by-step run and RunAnalysis agree on a first run.
FirstRunIsRunAnalysis ==
    (pc = "idle" /\ runs = 1) => Analyzer = RunAnalysis(NewAnalyzer, directory)

============================================================================
